---------------------------- MODULE Spec2Model ----------------------------
(***************************************************************************)
(* A model of src/src/lib.rs: RawVec (the growable raw buffer), NomVec     *)
(* (the vector built on it), RawValIter (the two-ended cursor) and the     *)
(* IntoIter / Drain iterators with their destructors.                      *)
(*                                                                         *)
(* Machine words are 4 bits wide in the model: usize::MAX is 15 and        *)
(* isize::MAX is 7, so that the growth clamp of RawVec::grow is reached    *)
(* after a handful of pushes.  Element values are tags: the k-th element   *)
(* handed to push/insert carries the value k, which lets the model tell    *)
(* every element apart; a zero-sized element has the single value ZstVal.  *)
(* The block of memory keeps the bits of a slot after the value was moved  *)
(* out of it (ptr::read copies, it does not erase).                        *)
(***************************************************************************)
EXTENDS Integers, Sequences, FiniteSets, TLC

\* ------------------------------------------------------------- bounds
\* Number of elements the caller hands to push/insert in one run.
MaxElems == 5
\* Number of elements the caller hands over in the runs that fill the
\* vector up to the growth clamp (SpecClamp).
MaxClampElems == 9

\* ------------------------------------------------- platform constants
USIZE_MAX == 15
ISIZE_MAX == 7

\* Element sizes in bytes of the element types the model instantiates.
ElemSizes == {0, 1, 2}

\* The value of a zero-sized element, and the bits of a slot never written.
ZstVal == 0
Uninit == -1

VARIABLES
  esz,      \* mem::size_of::<T>()
  ptr,      \* RawVec.ptr: 0 is NonNull::dangling(), k > 0 the k-th block
  cap,      \* RawVec.cap
  len,      \* NomVec.len
  mem,      \* the slots of the block RawVec.ptr denotes (cap slots)
  heap,     \* the allocator's view of the block: state, size in bytes, calls
  phase,    \* "vec", "drain" (a Drain is outstanding), "into", "done"
  it,       \* RawValIter.start / .end (byte offsets from ptr) and bookkeeping
  made,     \* number of elements handed to push/insert so far
  put,      \* value -> times it was written into the vector
  moved,    \* value -> times it was moved out to the caller
  dropped,  \* value -> times a destructor of this crate dropped it
  ub,       \* an access outside the block has happened
  limit,    \* the bound on made of this run
  pushOnly, \* every operation so far was a push that returned
  last      \* the last operation: arguments, result, state before it

vars == <<esz, ptr, cap, len, mem, heap, phase, it, made, put, moved,
          dropped, ub, limit, pushOnly, last>>

Min(a, b) == IF a < b THEN a ELSE b

Vals == -1..MaxClampElems + 1

\* ------------------------------------------------------------ results
\* What an operation gave back: None, Some(v), () or a panic with its message.
None == [tag |-> "None", v |-> 0, msg |-> ""]
Some(x) == [tag |-> "Some", v |-> x, msg |-> ""]
Unit == [tag |-> "Unit", v |-> 0, msg |-> ""]
Panic(m) == [tag |-> "Panic", v |-> 0, msg |-> m]
Hint(n) == [tag |-> "Hint", v |-> n, msg |-> ""]

NoCall == [fn |-> "none", old |-> 0, new |-> 0, ok |-> FALSE]

\* ------------------------------------------------------- slice view
\* Deref for NomVec: from_raw_parts(ptr, len); a zero-sized element has no
\* bits, every read of one gives the one value of the type.
ReadSlot(m, i) ==
  IF esz = 0 THEN ZstVal
  ELSE IF i < Len(m) THEN m[i + 1] ELSE Uninit

SliceOf(m, n) == [i \in 1..n |-> ReadSlot(m, i - 1)]

Contents == SliceOf(mem, len)

\* ptr::write(ptr.add(i), v)
WriteSlot(m, i, v) ==
  IF esz = 0 \/ i >= Len(m) THEN m
  ELSE [m EXCEPT ![i + 1] = v]

\* A copy that goes forward slot by slot (memcpy on overlapping ranges)
CopySlotsForward(m, src, dst, count) ==
  IF esz = 0 \/ count <= 0 THEN m
  ELSE [k \in 1..Len(m) |->
          IF k - 1 >= dst /\ k - 1 < dst + count
          THEN IF dst > src /\ dst < src + count
               THEN ReadSlot(m, src + ((k - 1 - src) % (dst - src)))
               ELSE ReadSlot(m, (k - 1) - dst + src)
          ELSE m[k]]

\* ptr::copy(ptr.add(src), ptr.add(dst), count): a memmove
CopySlots(m, src, dst, count) ==
  IF esz = 0 THEN m
  ELSE [k \in 1..Len(m) |->
          IF k - 1 >= dst /\ k - 1 < dst + count
          THEN ReadSlot(m, (k - 1) - dst + src)
          ELSE m[k]]

\* Whether slots [i, i + count) lie in the block (always, for a zero-sized type)
InBlock(c, i, count) == esz = 0 \/ count = 0 \/ i + count <= c

\* ---------------------------------------------------- the last operation
\* ins: set by a remove that directly follows a successful insert at the
\* same index, to the vector as it was before that insert.
NoIns == [on |-> FALSE, c |-> <<>>, n |-> 0, v |-> 0]

Ev(op, idx, val, ret, call) ==
  [op |-> op, idx |-> idx, val |-> val, ret |-> ret, call |-> call,
   preLen |-> len, preCap |-> cap, prePtr |-> ptr, preC |-> Contents,
   preMem |-> mem, wrote |-> -1, wcap |-> 0, ins |-> NoIns,
   grow |-> "none"]

\* The record of a push or insert: grow is what RawVec::grow returned
\* ("none" when it was not called)
EvG(op, idx, val, ret, call, g) ==
  [Ev(op, idx, val, ret, call) EXCEPT !.grow = g]

EvW(op, idx, val, ret, call, w, wc, g) ==
  [Ev(op, idx, val, ret, call) EXCEPT !.wrote = w, !.wcap = wc, !.grow = g]

NoIter == [start |-> 0, end |-> 0, src |-> <<>>, nf |-> 0, nb |-> 0]

\* ------------------------------------------------------------- RawVec
\* RawVec::new
NewRawCap(sz) == IF sz = 0 THEN USIZE_MAX ELSE 0

\* A growth that allocates a new block and leaves the old bits behind
GrownMemFresh(m, newCap) == [i \in 1..newCap |-> Uninit]

\* The block after the allocator moved it to a block of newCap slots: the
\* old bits first, the rest never written
GrownMem(m, newCap) ==
  [i \in 1..newCap |-> IF i <= Len(m) THEN m[i] ELSE Uninit]

\* A growth that doubles
NewCapDoubling(c) ==
  LET raw == IF c = 0 THEN 4 ELSE (c + c) % (USIZE_MAX + 1)
  IN  Min(raw, ISIZE_MAX)

\* RawVec::grow, lines 59-67: the new capacity
NewCap(c) ==
  LET raw == IF c = 0 THEN 4 ELSE (c + c \div 2) % (USIZE_MAX + 1)
  IN  Min(raw, ISIZE_MAX)

\* Layout::array::<T>(n) is an error when n * size_of::<T>() exceeds isize::MAX
LayoutArrayOk(n) == n * esz <= ISIZE_MAX

\* A failing growth that has already stored the new capacity
GrowErrCommitsCap(res, call) ==
  [res |-> res, cap |-> NewCap(cap), ptr |-> ptr, mem |-> mem, heap |-> heap,
   call |-> call]

\* A failing growth that gives the buffer up
GrowErrForgetsBlock(res, call) ==
  [res |-> res, cap |-> 0, ptr |-> ptr, mem |-> mem, heap |-> heap,
   call |-> call]

\* RawVec::grow, the early returns of lines 56, 71 and 86 (and the panic of
\* line 68): self is as it was
GrowErr(res, call) ==
  [res |-> res, cap |-> cap, ptr |-> ptr, mem |-> mem, heap |-> heap,
   call |-> call]

\* RawVec::grow: the outcome when the allocator answers allocOk.
\* res is "Ok", an AllocationError, or "LayoutPanic" (the unwrap of line 68).
Grow(allocOk) ==
  IF esz = 0
  THEN GrowErr("CapacityOverflow", NoCall)
  ELSE
    LET newCap == NewCap(cap)
        bytes  == newCap * esz
        call   == [fn |-> IF cap = 0 THEN "allocate" ELSE "grow",
                   old |-> cap * esz, new |-> bytes, ok |-> allocOk]
    IN  IF ~LayoutArrayOk(newCap)
        THEN GrowErr("LayoutPanic", NoCall)
        ELSE IF bytes > ISIZE_MAX
        THEN GrowErr("AllocationTooLarge", NoCall)
        ELSE IF ~allocOk
        THEN GrowErr("AllocationFailed", call)
        ELSE [res |-> "Ok", cap |-> newCap, ptr |-> ptr + 1,
              mem |-> GrownMem(mem, newCap),
              heap |-> [heap EXCEPT !.state = "live", !.bytes = bytes],
              call |-> call]

\* A teardown that releases whenever the capacity is not 0
DropRawVecAnySize(h) ==
  IF cap # 0
  THEN [h EXCEPT !.state = "freed", !.frees = @ + 1, !.freedBytes = cap * esz]
  ELSE h

\* Drop for RawVec
DropRawVec(h) ==
  IF cap # 0 /\ esz # 0
  THEN [h EXCEPT !.state = "freed", !.frees = @ + 1, !.freedBytes = cap * esz]
  ELSE h

\* n elements are read out of the block: the allocator's block must still
\* be there (a zero-sized element is not in the block)
Reads(h, n) ==
  IF esz # 0 /\ h.state = "freed" THEN [h EXCEPT !.lateReads = @ + n]
  ELSE h

\* A teardown that releases the buffer before it reads the elements out
TeardownHeapFreeFirst(h, n) == Reads(DropRawVec(h), n)

\* Drop for NomVec / Drop for IntoIter: the destructor's body reads the n
\* remaining elements out, then the RawVec field is dropped
TeardownHeap(h, n) == DropRawVec(Reads(h, n))

\* ------------------------------------------------------------- NomVec
Fresh == IF esz = 0 THEN ZstVal ELSE made + 1

Bump(f, v) == [f EXCEPT ![v] = @ + 1]

\* NomVec::push, the slot written
PushIndex(n) == n

\* NomVec::push
Push(allocOk) ==
  /\ phase = "vec" /\ ~ub /\ made < limit
  /\ LET elem == Fresh
         g == IF len = cap THEN Grow(allocOk)
              ELSE [res |-> "Ok", cap |-> cap, ptr |-> ptr, mem |-> mem,
                    heap |-> heap, call |-> NoCall]
     IN  /\ (len # cap => allocOk)
         /\ IF g.res # "Ok"
            THEN /\ ptr' = g.ptr /\ cap' = g.cap /\ heap' = g.heap
                 /\ mem' = g.mem
                 /\ last' = EvG("push", len, elem, Panic(g.res), g.call,
                                g.res)
                 /\ pushOnly' = FALSE
                 /\ UNCHANGED <<len, made, put, ub>>
            ELSE /\ ptr' = g.ptr /\ cap' = g.cap /\ heap' = g.heap
                 /\ mem' = WriteSlot(g.mem, PushIndex(len), elem)
                 /\ ub' = ~InBlock(g.cap, PushIndex(len), 1)
                 /\ len' = len + 1
                 /\ made' = made + 1
                 /\ put' = Bump(put, elem)
                 /\ last' = EvW("push", len, elem, Unit, g.call,
                                PushIndex(len), g.cap,
                                IF len = cap THEN g.res ELSE "none")
                 /\ pushOnly' = pushOnly
  /\ UNCHANGED <<esz, phase, it, moved, dropped, limit>>

\* A pop that reads before it decrements
PopIndexBeforeDecrement(n) == n

\* NomVec::pop, the slot read
PopIndex(n) == n - 1

\* NomVec::pop
Pop ==
  /\ phase = "vec" /\ ~ub
  /\ IF len = 0
     THEN /\ last' = Ev("pop", 0, 0, None, NoCall)
          /\ UNCHANGED <<len, moved>>
     ELSE LET v == ReadSlot(mem, PopIndex(len))
          IN  /\ len' = len - 1
              /\ moved' = Bump(moved, v)
              /\ last' = Ev("pop", 0, 0, Some(v), NoCall)
  /\ pushOnly' = FALSE
  /\ UNCHANGED <<esz, ptr, cap, mem, heap, phase, it, made, put, dropped,
                 ub, limit>>

\* An insert that writes without shifting
InsertMemNoShift(m, n, index, elem) == WriteSlot(m, index, elem)

\* NomVec::insert, lines 173-183: shift [index, len) one slot right, write
InsertMem(m, n, index, elem) ==
  LET shifted == IF index < n THEN CopySlots(m, index, index + 1, n - index)
                 ELSE m
  IN  WriteSlot(shifted, index, elem)

\* NomVec::insert, line 169: the assertion
InsertIndexOk(index, n) == index <= n

\* NomVec::insert
Insert(index, allocOk) ==
  /\ phase = "vec" /\ ~ub /\ made < limit
  /\ LET elem == Fresh
         g == IF cap = len THEN Grow(allocOk)
              ELSE [res |-> "Ok", cap |-> cap, ptr |-> ptr, mem |-> mem,
                    heap |-> heap, call |-> NoCall]
     IN  /\ ((len # cap \/ index > len) => allocOk)
         /\ IF ~InsertIndexOk(index, len)
            THEN /\ last' = Ev("insert", index, elem,
                                Panic("index out of bounds"), NoCall)
                 /\ UNCHANGED <<ptr, cap, len, mem, heap, made, put, ub>>
            ELSE IF g.res # "Ok"
            THEN /\ ptr' = g.ptr /\ cap' = g.cap /\ heap' = g.heap
                 /\ mem' = g.mem
                 /\ last' = EvG("insert", index, elem, Panic(g.res),
                                g.call, g.res)
                 /\ UNCHANGED <<len, made, put, ub>>
            ELSE /\ ptr' = g.ptr /\ cap' = g.cap /\ heap' = g.heap
                 /\ mem' = InsertMem(g.mem, len, index, elem)
                 /\ ub' = ~InBlock(g.cap, index, len - index + 1)
                 /\ len' = len + 1
                 /\ made' = made + 1
                 /\ put' = Bump(put, elem)
                 /\ last' = EvW("insert", index, elem, Unit, g.call,
                                len, g.cap,
                                IF cap = len THEN g.res ELSE "none")
  /\ pushOnly' = FALSE
  /\ UNCHANGED <<esz, phase, it, moved, dropped, limit>>

\* A remove that shifts the tail the wrong way
RemoveMemWrongWay(m, n, index) ==
  CopySlots(m, index, index + 1, (n - 1) - index)

\* NomVec::remove, lines 189-195: shift [index + 1, len) one slot left
RemoveMem(m, n, index) == CopySlots(m, index + 1, index, (n - 1) - index)

\* A remove that accepts index = len
RemoveIndexOkInclusive(index, n) == index <= n

\* NomVec::remove, line 187: the assertion
RemoveIndexOk(index, n) == index < n

\* NomVec::remove
Remove(index) ==
  /\ phase = "vec" /\ ~ub
  /\ IF ~RemoveIndexOk(index, len)
     THEN /\ last' = Ev("remove", index, 0, Panic("index out of bounds"),
                         NoCall)
          /\ UNCHANGED <<len, mem, moved>>
     ELSE LET v == ReadSlot(mem, index)
          IN  /\ len' = len - 1
              /\ mem' = RemoveMem(mem, len, index)
              /\ moved' = Bump(moved, v)
              /\ last' = [Ev("remove", index, 0, Some(v), NoCall) EXCEPT
                            !.ins = IF /\ last.op = "insert"
                                       /\ last.ret.tag = "Unit"
                                       /\ last.idx = index
                                    THEN [on |-> TRUE, c |-> last.preC,
                                          n |-> last.preLen, v |-> last.val]
                                    ELSE NoIns]
  /\ pushOnly' = FALSE
  /\ UNCHANGED <<esz, ptr, cap, heap, phase, it, made, put, dropped, ub,
                 limit>>

\* --------------------------------------------------------- RawValIter
\* An end boundary computed by element offset for every element size
IterEndByOffset(n) ==
  IF n = 0 THEN 0 ELSE n * esz

\* RawValIter::new: the end boundary of a slice of n elements
IterEnd(n) ==
  IF esz = 0 THEN n % (USIZE_MAX + 1)
  ELSE IF n = 0 THEN 0
  ELSE n * esz

IterNew(n) ==
  [start |-> 0, end |-> IterEnd(n), src |-> SliceOf(mem, n), nf |-> 0,
   nb |-> 0]

\* ptr::read at a boundary address
ReadAt(a) == IF esz = 0 THEN ZstVal ELSE ReadSlot(mem, a \div esz)

\* RawValIter::next, lines 287-291: the start boundary after a step
NextStart(s) == IF esz = 0 THEN (s + 1) % (USIZE_MAX + 1) ELSE s + esz

\* A next_back whose end boundary does not retreat
BackEndStuck(e) == e

\* RawValIter::next_back, line 310: end.offset(-1) moves by size_of::<T>()
BackEnd(e) == e - esz

\* RawValIter::next
IterNext(i) ==
  IF i.start = i.end
  THEN [ret |-> None, it |-> i]
  ELSE [ret |-> Some(ReadAt(i.start)),
        it |-> [i EXCEPT !.start = NextStart(i.start), !.nf = @ + 1]]

\* RawValIter::next_back
IterNextBack(i) ==
  IF i.start = i.end
  THEN [ret |-> None, it |-> i]
  ELSE [ret |-> Some(ReadAt(BackEnd(i.end))),
        it |-> [i EXCEPT !.end = BackEnd(i.end), !.nb = @ + 1]]

\* RawValIter::size_hint: the division panics for a zero-sized type
IterSizeHint(i) ==
  IF esz = 0 THEN Panic("attempt to divide by zero")
  ELSE Hint((i.end - i.start) \div esz)

\* for _ in &mut self.iter {}: the values next() yields until None
RECURSIVE Exhaust(_)
Exhaust(i) ==
  LET r == IterNext(i)
  IN  IF r.ret.tag = "None" THEN <<>> ELSE <<r.ret.v>> \o Exhaust(r.it)

BumpAll(f, seq) ==
  [v \in DOMAIN f |-> f[v] + Cardinality({k \in 1..Len(seq) : seq[k] = v})]

\* NomVec::drain
Drain ==
  /\ phase = "vec" /\ ~ub
  /\ it' = IterNew(len)
  /\ len' = 0
  /\ phase' = "drain"
  /\ last' = Ev("drain", 0, 0, Unit, NoCall)
  /\ pushOnly' = FALSE
  /\ UNCHANGED <<esz, ptr, cap, mem, heap, made, put, moved, dropped, ub,
                 limit>>

\* IntoIterator for NomVec: the buffer moves into the IntoIter, the vector
\* is forgotten
IntoIter ==
  /\ phase = "vec" /\ ~ub
  /\ it' = IterNew(len)
  /\ phase' = "into"
  /\ last' = Ev("into_iter", 0, 0, Unit, NoCall)
  /\ pushOnly' = FALSE
  /\ UNCHANGED <<esz, ptr, cap, len, mem, heap, made, put, moved, dropped,
                 ub, limit>>

\* Iterator::next for IntoIter and Drain
IterNextOp ==
  /\ phase \in {"drain", "into"}
  /\ LET r == IterNext(it)
     IN  /\ it' = r.it
         /\ moved' = IF r.ret.tag = "Some" THEN Bump(moved, r.ret.v)
                      ELSE moved
         /\ heap' = Reads(heap, IF r.ret.tag = "Some" THEN 1 ELSE 0)
         /\ last' = Ev("next", it.nf + it.nb, 0, r.ret, NoCall)
  /\ pushOnly' = FALSE
  /\ UNCHANGED <<esz, ptr, cap, len, mem, phase, made, put, dropped, ub,
                 limit>>

\* DoubleEndedIterator::next_back for IntoIter and Drain.  A zero-sized
\* type never runs out from the back; the model stops counting after one
\* yield more than the iterator holds.
IterNextBackOp ==
  /\ phase \in {"drain", "into"}
  /\ it.nf + it.nb <= Len(it.src)
  /\ LET r == IterNextBack(it)
     IN  /\ it' = r.it
         /\ moved' = IF r.ret.tag = "Some" THEN Bump(moved, r.ret.v)
                      ELSE moved
         /\ heap' = Reads(heap, IF r.ret.tag = "Some" THEN 1 ELSE 0)
         /\ last' = Ev("next_back", it.nf + it.nb, 0, r.ret, NoCall)
  /\ pushOnly' = FALSE
  /\ UNCHANGED <<esz, ptr, cap, len, mem, phase, made, put, dropped, ub,
                 limit>>

\* Iterator::size_hint for IntoIter and Drain
SizeHintOp ==
  /\ phase \in {"drain", "into"}
  /\ last' = Ev("size_hint", 0, 0, IterSizeHint(it), NoCall)
  /\ pushOnly' = FALSE
  /\ UNCHANGED <<esz, ptr, cap, len, mem, heap, phase, it, made, put, moved,
                 dropped, ub, limit>>

\* Drop for Drain
DropDrain ==
  /\ phase = "drain"
  /\ dropped' = BumpAll(dropped, Exhaust(it))
  /\ it' = NoIter
  /\ phase' = "vec"
  /\ last' = Ev("drop_drain", 0, 0, Unit, NoCall)
  /\ pushOnly' = FALSE
  /\ UNCHANGED <<esz, ptr, cap, len, mem, heap, made, put, moved, ub, limit>>

\* Drop for IntoIter, then Drop for its RawVec
DropIntoIter ==
  /\ phase = "into"
  /\ dropped' = BumpAll(dropped, Exhaust(it))
  /\ heap' = TeardownHeap(heap, Len(Exhaust(it)))
  /\ it' = NoIter
  /\ phase' = "done"
  /\ last' = Ev("drop_into_iter", 0, 0, Unit, NoCall)
  /\ pushOnly' = FALSE
  /\ UNCHANGED <<esz, ptr, cap, len, mem, made, put, moved, ub, limit>>

\* while self.pop().is_some() {}: the values the pops give, last first
RECURSIVE PopAll(_, _)
PopAll(m, n) ==
  IF n = 0 THEN <<>>
  ELSE <<ReadSlot(m, PopIndex(n))>> \o PopAll(m, n - 1)

\* Drop for NomVec, then Drop for its RawVec
DropVec ==
  /\ phase = "vec" /\ ~ub
  /\ dropped' = BumpAll(dropped, PopAll(mem, len))
  /\ len' = 0
  /\ heap' = TeardownHeap(heap, len)
  /\ phase' = "done"
  /\ last' = Ev("drop_vec", 0, 0, Unit, NoCall)
  /\ pushOnly' = FALSE
  /\ UNCHANGED <<esz, ptr, cap, mem, it, made, put, moved, ub, limit>>

\* ------------------------------------------------------ specification
InitWith(lim) ==
  /\ esz \in ElemSizes
  /\ ptr = 0
  /\ cap = NewRawCap(esz)
  /\ len = 0
  /\ mem = <<>>
  /\ heap = [state |-> "none", bytes |-> 0, frees |-> 0, freedBytes |-> 0,
             lateReads |-> 0]
  /\ phase = "vec"
  /\ it = NoIter
  /\ made = 0
  /\ put = [v \in Vals |-> 0]
  /\ moved = [v \in Vals |-> 0]
  /\ dropped = [v \in Vals |-> 0]
  /\ ub = FALSE
  /\ limit = lim
  /\ pushOnly = TRUE
  /\ last = Ev("new", 0, 0, Unit, NoCall)

Init == InitWith(MaxElems)

Next ==
  \/ \E ok \in BOOLEAN : Push(ok)
  \/ Pop
  \/ \E i \in 0..len + 1, ok \in BOOLEAN : Insert(i, ok)
  \/ \E i \in 0..len : Remove(i)
  \/ Drain
  \/ IntoIter
  \/ IterNextOp
  \/ IterNextBackOp
  \/ SizeHintOp
  \/ DropDrain
  \/ DropIntoIter
  \/ DropVec

Spec == Init /\ [][Next]_vars

\* The runs that fill a vector of one-byte elements up to the growth clamp:
\* pushes, inserts at the end, pops, and the teardown.
InitClamp == InitWith(MaxClampElems) /\ esz = 1

NextClamp ==
  \/ \E ok \in BOOLEAN : Push(ok)
  \/ Pop
  \/ \E ok \in BOOLEAN : Insert(len, ok)
  \/ DropVec

SpecClamp == InitClamp /\ [][NextClamp]_vars

\* The runs that fill a vector of zero-sized elements up to its capacity,
\* usize::MAX, and push once more.
MaxZstElems == USIZE_MAX + 1

InitZst == InitWith(MaxZstElems) /\ esz = 0

NextZst ==
  \/ \E ok \in BOOLEAN : Push(ok)
  \/ Pop
  \/ DropVec

SpecZst == InitZst /\ [][NextZst]_vars

\* ---------------------------------------------------------------- claims
Yielded == it.nf + it.nb

Seq1(n) == [i \in 1..n |-> IF esz = 0 THEN ZstVal ELSE i]

\* C1: in every reachable state length <= capacity, and every slot written
\* by push or insert has an index strictly below the capacity in force at
\* the write, also once the capacity has reached the clamp and the
\* allocator accepts the request.
C1_LenLeCapWritesInBlock ==
  /\ len <= cap
  /\ (last.wrote >= 0 => last.wrote < last.wcap)

C3_PopLifo ==
  last.op = "pop" =>
    IF last.preLen > 0
    THEN /\ last.ret = Some(last.preC[last.preLen])
         /\ len = last.preLen - 1
         /\ Contents = SubSeq(last.preC, 1, last.preLen - 1)
    ELSE /\ last.ret = None
         /\ len = 0 /\ cap = last.preCap /\ ptr = last.prePtr
         /\ mem = last.preMem

C3_Witness ==
  last.op = "pop" /\ esz = 1 /\ last.preLen = 3 /\ last.ret.tag = "Some"

C5_RemoveCloses ==
  last.op = "remove" =>
    LET i == last.idx
        n == last.preLen
    IN  i < n =>
          /\ last.ret = Some(last.preC[i + 1])
          /\ len = n - 1
          /\ cap = last.preCap
          /\ Contents = SubSeq(last.preC, 1, i) \o SubSeq(last.preC, i + 2, n)

C5_Witness ==
  /\ last.op = "remove" /\ last.ret.tag = "Some" /\ esz = 1
  /\ last.preLen = 4 /\ last.idx = 1

C7_OutOfBoundsPanics ==
  (\/ last.op = "insert" /\ last.idx > last.preLen
   \/ last.op = "remove" /\ last.idx >= last.preLen) =>
    /\ last.ret = Panic("index out of bounds")
    /\ len = last.preLen /\ cap = last.preCap /\ ptr = last.prePtr
    /\ mem = last.preMem
    /\ Contents = last.preC
    /\ last.call = NoCall
    /\ heap.state = (IF last.prePtr = 0 THEN "none" ELSE "live")

C7_Witness ==
  /\ last.op = "insert" /\ last.idx > last.preLen /\ esz = 1
  /\ last.preLen = 4 /\ last.preCap = 4

\* C8: drain() sets the length to 0 at the call, it stays 0 while the
\* Drain is outstanding and after its drop; driven by next() alone the Drain
\* yields s[0], ..., s[n-1] in order, each once, and driven by next_back()
\* alone it yields them in reverse order, each once.
C8_DrainYieldsEachOnce ==
  /\ (phase = "drain" \/ last.op \in {"drain", "drop_drain"}) => len = 0
  /\ phase = "drain" =>
        LET n == Len(it.src)
        IN  /\ it.nb = 0 => it.nf <= n
            /\ it.nf = 0 => it.nb <= n
            /\ (last.op = "next" /\ it.nb = 0) =>
                  IF last.idx < n
                  THEN it.nf = last.idx + 1 /\ last.ret = Some(it.src[it.nf])
                  ELSE last.ret = None
            /\ (last.op = "next_back" /\ it.nf = 0) =>
                  IF last.idx < n
                  THEN /\ it.nb = last.idx + 1
                       /\ last.ret = Some(it.src[n - last.idx])
                  ELSE last.ret = None

\* C9: for a non-zero-sized element type, every interleaving of next() and
\* next_back() over contents s of length n yields every element once over
\* the first n calls (next() the lowest index not yet yielded, next_back()
\* the highest), and every later call returns None.
C9_TwoEndedExactlyOnce ==
  (esz > 0 /\ phase \in {"drain", "into"}) =>
    LET n == Len(it.src)
    IN  /\ Yielded <= n
        /\ last.op \in {"next", "next_back"} =>
              IF last.idx < n
              THEN /\ Yielded = last.idx + 1
                   /\ last.op = "next" =>
                         it.nf >= 1 /\ last.ret = Some(it.src[it.nf])
                   /\ last.op = "next_back" =>
                         it.nb >= 1 /\ last.ret = Some(it.src[n - it.nb + 1])
              ELSE Yielded = n /\ last.ret = None

C9_Witness ==
  /\ esz = 1 /\ phase = "into" /\ Len(it.src) = 3
  /\ it.nf = 2 /\ it.nb = 1 /\ last.op = "next_back" /\ last.ret = None

\* C10: every element put into the vector is disposed of exactly once: it
\* is moved out to the caller once or dropped by a teardown once, never
\* both and never neither once everything is torn down.
C10_DisposedExactlyOnce ==
  \A v \in Vals :
    /\ moved[v] + dropped[v] <= put[v]
    /\ phase = "done" => moved[v] + dropped[v] = put[v]

\* C11: an allocated block is deallocated exactly once: by the vector's
\* teardown or, after into_iter, by the IntoIter's teardown, after the
\* remaining elements were read out, however many the consumer took; a
\* Drain never deallocates, and no element is read out of a freed block.
C11_BlockFreedOnce ==
  /\ heap.lateReads = 0
  /\ phase \in {"vec", "drain", "into"} =>
        /\ heap.frees = 0
        /\ heap.state = (IF ptr = 0 THEN "none" ELSE "live")
  /\ phase = "done" =>
        /\ last.op \in {"drop_vec", "drop_into_iter"}
        /\ heap.frees = (IF ptr = 0 THEN 0 ELSE 1)
        /\ heap.state = (IF ptr = 0 THEN "none" ELSE "freed")
        /\ ptr # 0 => \A v \in Vals : moved[v] + dropped[v] = put[v]

C11_Witness ==
  /\ phase = "done" /\ last.op = "drop_into_iter" /\ esz = 1
  /\ heap.frees = 1 /\ ptr = 2
  /\ moved[1] = 1 /\ moved[5] = 1 /\ dropped[2] = 1 /\ dropped[4] = 1

AllocationErrors == {"CapacityOverflow", "AllocationTooLarge", "AllocationFailed"}

\* The last operation was a push or insert whose growth returned an error
GrowthFailed ==
  /\ last.op \in {"push", "insert"}
  /\ last.grow \in AllocationErrors

\* C12: a push or insert on a full vector whose growth fails gives the
\* failure back to its caller as a typed error value, it does not panic.
C12_GrowthFailureIsErrorValue ==
  (GrowthFailed /\ last.preLen = last.preCap) => last.ret.tag # "Panic"

\* C13: a failed growth commits nothing: capacity and pointer are what they
\* were, and inside push or insert the length and the block (so the live
\* contents) are unchanged as well; the allocator still holds the old block.
C13_FailedGrowthCommitsNothing ==
  GrowthFailed =>
    /\ cap = last.preCap /\ ptr = last.prePtr
    /\ len = last.preLen /\ len <= cap
    /\ mem = last.preMem /\ Contents = last.preC
    /\ heap.state = (IF ptr = 0 THEN "none" ELSE "live")
    /\ heap.bytes = cap * esz

C13_Witness ==
  /\ GrowthFailed /\ last.op = "insert" /\ last.idx = 1 /\ esz = 1
  /\ last.preLen = 4 /\ last.call.fn = "grow" /\ ~last.call.ok

\* C14: after k of the n elements of a Drain or IntoIter have been yielded,
\* by next() and next_back() in any mix, size_hint() returns (n-k, Some(n-k))
\* and does not fail, whatever the element size.
C14_SizeHintExact ==
  last.op = "size_hint" => last.ret = Hint(Len(it.src) - Yielded)

\* C15: for a zero-sized element type, a vector that received N pushes and
\* nothing else has length N, and an IntoIter over a vector of length N
\* that is driven by next() alone yields an item on each of its first N
\* calls and None on every call after them.
C15_ZstPushesThenIntoIter ==
  esz = 0 =>
    /\ (pushOnly /\ phase = "vec") => len = made
    /\ (phase = "into" /\ it.nb = 0 /\ last.op = "next") =>
          /\ Len(it.src) = len
          /\ IF last.idx < Len(it.src)
             THEN /\ last.ret = Some(ZstVal)
                  /\ it.nf = last.idx + 1
             ELSE /\ last.ret = None
                  /\ it.nf = Len(it.src)

C15_Witness ==
  /\ esz = 0 /\ phase = "into" /\ it.nb = 0 /\ last.op = "next"
  /\ made = 3 /\ len = 3 /\ Len(it.src) = 3 /\ put[ZstVal] = 3
  /\ it.nf = 3 /\ last.idx = 3 /\ last.ret = None /\ moved[ZstVal] = 3

\* C16: for a zero-sized element type and an iterator over N elements, a
\* next_back() that yields an item leaves one item fewer between the two
\* boundaries, so that next_back(), alone or mixed with next(), yields N
\* items in all and then returns None with start == end.
C16_ZstNextBackRetreats ==
  (esz = 0 /\ phase \in {"drain", "into"} /\ last.op = "next_back") =>
    /\ Yielded <= Len(it.src)
    /\ (it.end - it.start) % (USIZE_MAX + 1) = Len(it.src) - Yielded
    /\ last.ret = None => (it.start = it.end /\ Yielded = Len(it.src))

\* C17: a call of RawVec::grow on a sized element type whose new capacity
\* times the element size is above isize::MAX returns AllocationTooLarge
\* and makes no allocator call, and whatever goes wrong in grow comes back
\* as one of the AllocationError values, never as a panic.
C17_TooLargeIsReturned ==
  (last.op \in {"push", "insert"} /\ last.grow # "none" /\ esz # 0) =>
    /\ last.grow \in AllocationErrors \cup {"Ok"}
    /\ NewCap(last.preCap) * esz > ISIZE_MAX =>
          (last.grow = "AllocationTooLarge" /\ last.call = NoCall)

\* C18: a grow that succeeds from capacity 0 sets the capacity to 4, and
\* one that succeeds from capacity c > 0 sets it to c + floor(c/2), the sum
\* taken without wrap-around and clamped to the largest element count whose
\* size in bytes is within isize::MAX.
C18_GrowthArithmetic ==
  (last.op \in {"push", "insert"} /\ last.grow = "Ok") =>
    /\ last.wcap = Min(IF last.preCap = 0 THEN 4
                       ELSE last.preCap + last.preCap \div 2,
                       ISIZE_MAX \div esz)
    /\ cap = last.wcap
    /\ last.preCap + last.preCap \div 2 <= USIZE_MAX

C18_Witness ==
  /\ last.op = "push" /\ last.grow = "Ok"
  /\ last.preCap = 6 /\ cap = 7 /\ put[4] = 1 /\ put[6] = 1

\* One step of the vector, as far as the capacity goes
C19_CapacityStep ==
  /\ cap' >= cap
  /\ cap' # cap => (last'.op \in {"push", "insert"} /\ last'.grow = "Ok")
  /\ (last'.op \in {"pop", "remove", "drain", "drop_drain"}
        \/ (phase = "drain"
              /\ last'.op \in {"next", "next_back", "size_hint"})) =>
       (cap' = cap /\ ptr' = ptr /\ heap' = heap)

\* C19: capacity never decreases from one step to the next; pop, remove,
\* drain and the use and drop of the Drain leave capacity, pointer and the
\* allocator's block as they were; a step that changes the capacity is a
\* push or insert whose grow returned Ok.
C19_CapacityMonotone == [][C19_CapacityStep]_vars

C19_Witness ==
  /\ phase = "vec" /\ last.op = "drop_drain" /\ esz = 1
  /\ cap = 6 /\ len = 0 /\ ptr = 2 /\ heap.state = "live" /\ heap.bytes = 6
  /\ moved[5] = 1 /\ moved[1] = 1 /\ dropped[3] = 1

\* C20: every allocator call fits the block as it is: allocate is called
\* only at capacity 0, the allocator's grow is called with an old size of
\* capacity times element size, which is the size of the block, and the
\* teardown deallocates capacity times element size bytes, the size the
\* last successful allocate or grow asked for; a zero-sized element type
\* (capacity usize::MAX, grow always CapacityOverflow) and a vector of
\* capacity 0 that never called grow see no allocator call at all, and a
\* vector of capacity 0 holds no block and is never deallocated.
C20_AllocatorCallsConsistent ==
  /\ last.call.fn = "allocate" => (last.preCap = 0 /\ last.call.old = 0)
  /\ last.call.fn = "grow" =>
        /\ last.preCap > 0
        /\ last.call.old = last.preCap * esz
        /\ ~last.call.ok => heap.bytes = last.call.old
  /\ (last.call.fn # "none" /\ last.call.ok) =>
        (heap.state = "live" /\ heap.bytes = last.call.new)
  /\ heap.state = "live" => (heap.frees = 0 /\ heap.bytes = cap * esz)
  /\ heap.state = "freed" =>
        /\ heap.frees = 1
        /\ heap.freedBytes = cap * esz
        /\ heap.freedBytes = heap.bytes
  /\ esz = 0 =>
        /\ cap = USIZE_MAX
        /\ last.grow \in {"none", "CapacityOverflow"}
        /\ last.call = NoCall
        /\ heap.state = "none" /\ heap.frees = 0
  /\ cap = 0 =>
        /\ heap.state = "none" /\ heap.frees = 0
        /\ last.call.fn \in {"none", "allocate"} /\ ~last.call.ok
        /\ last.grow = "none" => last.call = NoCall

C20_Witness ==
  /\ phase = "done" /\ last.op = "drop_vec" /\ esz = 1
  /\ cap = 6 /\ heap.state = "freed" /\ heap.frees = 1
  /\ heap.freedBytes = 6 /\ heap.bytes = 6 /\ dropped[5] = 1

=============================================================================
